---- MODULE Spec2Model ----
(***************************************************************************)
(* visualime.visualize.select_segments as a state machine.                 *)
(*                                                                         *)
(* A call of select_segments is a stack of frames (the function calls      *)
(* itself for its max_coverage / min_coverage fallback); every frame walks *)
(* through the statements of the function in source order.                 *)
(*                                                                         *)
(* Abstractions, all of them exact for what select_segments reads:         *)
(*  - segment_mask is kept as its histogram: segment_mask[s + 1] is the    *)
(*    number of pixels whose value is s, for s in 0 .. np.max(mask).  The  *)
(*    function reads the mask only through np.max, shape[0] * shape[1]     *)
(*    and np.isin(mask, ids).sum().  An ID with no pixel (a mask that is   *)
(*    not densely numbered) has the count 0.                               *)
(*  - a coverage value c stands for the fraction c / CovDen, so that       *)
(*    "pixels / _area >= coverage" is "pixels * CovDen >= c * _area".      *)
(*  - an Optional argument is <<>> for None and <<v>> for the value v.     *)
(*  - np.argsort (default kind, not a stable sort) may put segments of     *)
(*    equal weight in any order; the order is chosen once per weights      *)
(*    array, as the same build sorts the same array the same way.          *)
(*                                                                         *)
(* The second part is visualime.lime and explain.explain_classification:   *)
(* one call of explain_classification, generate_images or weigh_segments,  *)
(* walking through the functions of lime.py.  There the mask is kept pixel *)
(* by pixel (pixel_mask[x] is the segment ID of pixel x of the flat image;  *)
(* the colour channels broadcast alike and are one value per pixel), and   *)
(* an array carries its dtype kind, "int" or "float", next to its values.  *)
(* The segmentation functions, predict_fn and the fit of the linear model  *)
(* are other libraries' code: any label array, any score matrix and any    *)
(* coefficient vector of the right shape.                                  *)
(***************************************************************************)
EXTENDS Integers, Sequences, FiniteSets, TLC

VARIABLES segment_weights, segment_mask, args, stack, ordered_segments,
          warnings, inspected, fallback, outcome, result, error, previous

\* lime.py / explain.py: the call under way, its position, its data.
VARIABLES call, lime_pc, label_idx, image, pixel_mask, samples, images,
          predictions, coef, stages, lime_error

lime_vars == <<call, lime_pc, label_idx, image, pixel_mask, samples, images,
               predictions, coef, stages, lime_error>>

vars == <<segment_weights, segment_mask, args, stack, ordered_segments,
          warnings, inspected, fallback, outcome, result, error, previous,
          lime_vars>>

\* ---------------------------------------------------------------- bounds
MaxSeg == 3
MaxPix == 2
MaxWeight == 1
CovDen == 2
MaxDepth == 3
MaxImg == 2
MaxVal == 1
MaxLabel == 2
MaxSamples == 2
NumClasses == 2

\* ---------------------------------------------------------------- values
None == <<>>
Some(v) == <<v>>
IsNone(x) == x = <<>>
Val(x) == x[1]

\* Python's `x or y` on an Optional[int]: None and 0 are both falsy.
OrElse(x, y) == IF IsNone(x) \/ Val(x) = 0 THEN y ELSE Val(x)

Min2(a, b) == IF a <= b THEN a ELSE b
Max2(a, b) == IF a >= b THEN a ELSE b

CovVals == 0 .. CovDen
NumVals == 0 .. MaxSeg
Opt(S) == {None} \cup {Some(v) : v \in S}

Masks == {m \in UNION {[1 .. n -> 0 .. MaxPix] : n \in 1 .. MaxSeg} : m[Len(m)] >= 1}
WeightArrays == UNION {[1 .. n -> 0 .. MaxWeight] : n \in 1 .. MaxSeg}

RECURSIVE SumPix(_, _)
SumPix(mask, ids) ==
    IF ids = {} THEN 0
    ELSE LET s == CHOOSE x \in ids : TRUE
         IN mask[s + 1] + SumPix(mask, ids \ {s})

\* segment_mask.shape[0] * segment_mask.shape[1]
Area(mask) == SumPix(mask, 0 .. Len(mask) - 1)

\* int(np.max(segment_mask))
MaxSegmentIdx(mask) == Len(mask) - 1

Range(seq) == {seq[i] : i \in 1 .. Len(seq)}

\* np.isin(segment_mask, ids).sum(): IDs beyond the mask's maximum match no pixel
IsinSum(mask, sel) == SumPix(mask, Range(sel) \cap (0 .. Len(mask) - 1))

\* np.isin(...).sum() / _area >= coverage, > coverage, < coverage
CoverGeq(mask, sel, c) == IsinSum(mask, sel) * CovDen >= c * Area(mask)
CoverGt(mask, sel, c) == IsinSum(mask, sel) * CovDen > c * Area(mask)
CoverLt(mask, sel, c) == IsinSum(mask, sel) * CovDen < c * Area(mask)

\* seq[:n] for n >= 0
Take(seq, n) == SubSeq(seq, 1, Min2(n, Len(seq)))

\* The results np.argsort(-segment_weights) can have: the permutations of
\* 0 .. len-1 along which the weight never increases.
ArgsortsDesc(w) ==
    {p \in [1 .. Len(w) -> 0 .. Len(w) - 1] :
        /\ \A i, j \in 1 .. Len(w) : i # j => p[i] # p[j]
        /\ \A i \in 1 .. Len(w) - 1 : w[p[i] + 1] >= w[p[i + 1] + 1]}

\* ---------------------------------------------------------------- frames
Frame(cov, num, minc, maxc, minn, maxn) ==
    [coverage |-> cov, num_of_segments |-> num,
     min_coverage |-> minc, max_coverage |-> maxc,
     min_num_of_segments |-> minn, max_num_of_segments |-> maxn,
     pc |-> "args", _selected_segments |-> <<>>, selected_segments |-> <<>>]

\* DefaultFrame with the target also handed on as max_coverage
\* (coverage=c, max_coverage=c).
DefaultFrameKeepsMax(c) == Frame(Some(c), None, 0, c, 0, None)

\* lines 138-142 and 149-153: select_segments(segment_weights=...,
\* segment_mask=..., coverage=c); the other parameters take the defaults of
\* the signature (lines 14-17).
DefaultFrame(c) == Frame(Some(c), None, 0, CovDen, 0, None)

Top == stack[Len(stack)]
Running == outcome = "running" /\ Len(stack) >= 1
SetTop(f) == [stack EXCEPT ![Len(stack)] = f]

inputs == <<segment_weights, segment_mask, args, previous, lime_vars>>

\* An exception leaves every frame: no frame of select_segments catches it.
Raise(msg) ==
    /\ outcome' = "raised"
    /\ error' = msg
    /\ stack' = <<>>
    /\ UNCHANGED <<inputs, ordered_segments, warnings, fallback, result>>

\* ---------------------------------------------------------------- Init
\* No array yet / no background given / no error raised.
NoArray == [dtype |-> "int", pixels |-> <<>>]
NoBackground == [kind |-> "none", dtype |-> "int", value |-> 0, pixels |-> <<>>]
NoError == [type |-> "none", options |-> <<>>]

\* No function of lime.py is being called.
NoLimeCall ==
    /\ call = [fn |-> "none", segmentation_method |-> "", model_type |-> "",
               num_of_samples |-> 0, background |-> NoBackground]
    /\ lime_pc = "idle"
    /\ label_idx = None
    /\ image = NoArray
    /\ pixel_mask = <<>>
    /\ samples = <<>>
    /\ images = NoArray
    /\ predictions = <<>>
    /\ coef = <<>>
    /\ stages = <<>>
    /\ lime_error = NoError

Start(cov, num, minc, maxc, minn, maxn) ==
    /\ args = [coverage |-> cov, num_of_segments |-> num,
               min_coverage |-> minc, max_coverage |-> maxc,
               min_num_of_segments |-> minn, max_num_of_segments |-> maxn]
    /\ stack = <<Frame(cov, num, minc, maxc, minn, maxn)>>
    /\ ordered_segments = <<>>
    /\ warnings = <<>>
    /\ inspected = {}
    /\ fallback = <<>>
    /\ outcome = "running"
    /\ result = <<>>
    /\ error = ""
    /\ previous = <<>>
    /\ NoLimeCall

\* Any call: any weights and mask, any combination of the six parameters.
Init ==
    /\ segment_weights \in WeightArrays
    /\ segment_mask \in Masks
    /\ \E cov \in Opt(CovVals), num \in Opt(NumVals),
          minc \in CovVals, maxc \in CovVals,
          minn \in NumVals, maxn \in Opt(NumVals) :
          Start(cov, num, minc, maxc, minn, maxn)

\* ---------------------------------------------------------------- actions
\* ArgsError with the check of the coverage bounds moved to the front.
ArgsErrorBoundsFirst(f) ==
    IF f.min_coverage >= f.max_coverage
    THEN "min_coverage has to be strictly smaller than max_coverage."
    ELSE IF IsNone(f.coverage) /\ IsNone(f.num_of_segments)
    THEN "Either coverage or num_of_segments has to be specified."
    ELSE IF ~IsNone(f.coverage) /\ ~IsNone(f.num_of_segments)
    THEN "Only either coverage or num_of_segments can be given."
    ELSE ""

\* lines 84-91: the message of the ValueError raised on the arguments alone,
\* "" when none is
ArgsError(f) ==
    IF IsNone(f.coverage) /\ IsNone(f.num_of_segments)
    THEN "Either coverage or num_of_segments has to be specified."
    ELSE IF ~IsNone(f.coverage) /\ ~IsNone(f.num_of_segments)
    THEN "Only either coverage or num_of_segments can be given."
    ELSE IF f.min_coverage >= f.max_coverage
    THEN "min_coverage has to be strictly smaller than max_coverage."
    ELSE ""

CheckArgs ==
    /\ Running /\ Top.pc = "args"
    /\ UNCHANGED inspected
    /\ IF ArgsError(Top) # ""
       THEN Raise(ArgsError(Top))
       ELSE /\ stack' = SetTop([Top EXCEPT !.pc = "mask"])
            /\ UNCHANGED <<inputs, ordered_segments, warnings, fallback,
                           outcome, result, error>>

\* lines 93-94
TotalNumOfSegments(mask) == MaxSegmentIdx(mask) + 1

\* line 103: max_num_of_segments or total_num_of_segments
MaxNumOfSegments(maxn, mask) == OrElse(maxn, TotalNumOfSegments(mask))

\* lines 96-108: the message of the ValueError raised once the mask and the
\* weights are looked at, "" when none is
MaskError(f, weights, mask) ==
    IF Len(weights) # TotalNumOfSegments(mask)
    THEN "The number of segment_weights does not match the number of segments."
    ELSE IF f.min_num_of_segments >= MaxNumOfSegments(f.max_num_of_segments, mask)
    THEN "min_num_of_segments has to be strictly smaller than max_num_of_segments."
    ELSE ""

\* lines 93-108
CheckMask ==
    /\ Running /\ Top.pc = "mask"
    /\ inspected' = inspected \cup {"segment_mask", "segment_weights"}
    /\ IF MaskError(Top, segment_weights, segment_mask) # ""
       THEN Raise(MaskError(Top, segment_weights, segment_mask))
       ELSE /\ stack' = SetTop([Top EXCEPT
                   !.max_num_of_segments =
                       Some(MaxNumOfSegments(Top.max_num_of_segments, segment_mask)),
                   !.pc = "order"])
            /\ UNCHANGED <<inputs, ordered_segments, warnings, fallback,
                           outcome, result, error>>

\* lines 110-112: ordered_segments = np.argsort(-segment_weights)
Order ==
    /\ Running /\ Top.pc = "order"
    /\ IF ordered_segments = <<>>
       THEN ordered_segments' \in ArgsortsDesc(segment_weights)
       ELSE UNCHANGED ordered_segments
    /\ stack' = SetTop([Top EXCEPT !.pc = "coverage"])
    /\ UNCHANGED <<inputs, warnings, inspected, fallback, outcome, result, error>>

\* lines 115-116: the target clamped by max_coverage and 1.0, then by
\* min_coverage and 0.0
ClampCoverage(c, minc, maxc) == Max2(Max2(Min2(Min2(c, maxc), CovDen), minc), 0)

\* LoopHits with ">" for ">=" in line 120.
LoopHitsStrict(mask, ordered, c) ==
    {i \in 0 .. MaxSegmentIdx(mask) - 1 : CoverGt(mask, Take(ordered, i + 1), c)}

\* LoopHits with "<=" for ">=" in line 120.
LoopHitsInverted(mask, ordered, c) ==
    {i \in 0 .. MaxSegmentIdx(mask) - 1 : ~CoverGt(mask, Take(ordered, i + 1), c)}

\* LoopHits with range(max_segment_idx + 1) in line 118.
LoopHitsFullRange(mask, ordered, c) ==
    {i \in 0 .. MaxSegmentIdx(mask) : CoverGeq(mask, Take(ordered, i + 1), c)}

\* lines 118-120: the i in range(max_segment_idx) whose prefix
\* ordered_segments[: i + 1] reaches the target
LoopHits(mask, ordered, c) ==
    {i \in 0 .. MaxSegmentIdx(mask) - 1 : CoverGeq(mask, Take(ordered, i + 1), c)}

\* lines 121-122: the loop breaks at the first of them
FirstHit(mask, ordered, c) ==
    CHOOSE i \in LoopHits(mask, ordered, c) :
        \A j \in LoopHits(mask, ordered, c) : i <= j

\* NumFromCoverage with "num_of_segments = i" in line 121.
NumFromCoverageOffByOne(mask, ordered, c, maxn) ==
    IF LoopHits(mask, ordered, c) # {}
    THEN FirstHit(mask, ordered, c)
    ELSE maxn

\* lines 118-129: the number of segments the loop ends with; maxn is
\* max_num_of_segments after line 103
NumFromCoverage(mask, ordered, c, maxn) ==
    IF LoopHits(mask, ordered, c) # {}
    THEN FirstHit(mask, ordered, c) + 1
    ELSE maxn

\* lines 114-129: a coverage target becomes a number of segments; the
\* warning of lines 124-128 when the loop ends without a break
SelectCoverage ==
    /\ Running /\ Top.pc = "coverage"
    /\ IF IsNone(Top.coverage)
       THEN /\ stack' = SetTop([Top EXCEPT !.pc = "number"])
            /\ UNCHANGED warnings
       ELSE LET c == ClampCoverage(Val(Top.coverage), Top.min_coverage, Top.max_coverage)
            IN /\ stack' = SetTop([Top EXCEPT
                      !.coverage = Some(c),
                      !.num_of_segments =
                          Some(NumFromCoverage(segment_mask, ordered_segments, c,
                                               Val(Top.max_num_of_segments))),
                      !.pc = "number"])
               /\ IF LoopHits(segment_mask, ordered_segments, c) # {}
                  THEN UNCHANGED warnings
                  ELSE warnings' = Append(warnings, "RuntimeWarning")
    /\ UNCHANGED <<inputs, ordered_segments, inspected, fallback, outcome, result, error>>

\* lines 132-133
ClampNum(n, minn, maxn) == Max2(Min2(n, maxn), minn)

\* FallbackOf with "<=" for "<" in line 148.
FallbackOfLeq(mask, sel, minc, maxc) ==
    IF CoverGt(mask, sel, maxc) THEN "max_coverage"
    ELSE IF ~CoverGt(mask, sel, minc) THEN "min_coverage"
    ELSE "none"

\* lines 137 and 148: which fallback the top segments call for
FallbackOf(mask, sel, minc, maxc) ==
    IF CoverGt(mask, sel, maxc) THEN "max_coverage"
    ELSE IF CoverLt(mask, sel, minc) THEN "min_coverage"
    ELSE "none"

\* lines 131-155: the top segments; then the call of select_segments with
\* max_coverage or min_coverage as the target, or the top segments as the
\* result
SelectNumber ==
    /\ Running /\ Top.pc = "number"
    /\ LET n == ClampNum(Val(Top.num_of_segments), Top.min_num_of_segments,
                         Val(Top.max_num_of_segments))
           sel == Take(ordered_segments, n)
           f == [Top EXCEPT !.num_of_segments = Some(n), !._selected_segments = sel]
           fb == FallbackOf(segment_mask, sel, Top.min_coverage, Top.max_coverage)
       IN IF fb = "max_coverage"
          THEN /\ Len(stack) < MaxDepth
               /\ stack' = Append(SetTop([f EXCEPT !.pc = "after_max"]),
                                  DefaultFrame(Top.max_coverage))
               /\ fallback' = Append(fallback, [target |-> fb, selected |-> sel])
          ELSE IF fb = "min_coverage"
          THEN /\ Len(stack) < MaxDepth
               /\ stack' = Append(SetTop([f EXCEPT !.pc = "after_min"]),
                                  DefaultFrame(Top.min_coverage))
               /\ fallback' = Append(fallback, [target |-> fb, selected |-> sel])
          ELSE /\ stack' = SetTop([f EXCEPT !.selected_segments = sel, !.pc = "return"])
               /\ UNCHANGED fallback
    /\ UNCHANGED <<inputs, ordered_segments, warnings, inspected, outcome, result, error>>

\* lines 143-147: the warning when the selection of the max_coverage
\* fallback still exceeds max_coverage
WarnExceeds ==
    /\ Running /\ Top.pc = "check_max"
    /\ IF CoverGt(segment_mask, Top.selected_segments, Top.max_coverage)
       THEN warnings' = Append(warnings, "UserWarning")
       ELSE UNCHANGED warnings
    /\ stack' = SetTop([Top EXCEPT !.pc = "return"])
    /\ UNCHANGED <<inputs, ordered_segments, inspected, fallback, outcome, result, error>>

\* line 158: return selected_segments, to the calling frame (lines 138, 149)
\* or to the user
Return ==
    /\ Running /\ Top.pc = "return"
    /\ IF Len(stack) = 1
       THEN /\ outcome' = "returned"
            /\ result' = Top.selected_segments
            /\ stack' = <<>>
       ELSE LET caller == stack[Len(stack) - 1]
                back == [caller EXCEPT !.selected_segments = Top.selected_segments,
                                       !.pc = IF caller.pc = "after_max"
                                              THEN "check_max" ELSE "return"]
            IN /\ stack' = Append(SubSeq(stack, 1, Len(stack) - 2), back)
               /\ UNCHANGED <<outcome, result>>
    /\ UNCHANGED <<inputs, ordered_segments, warnings, inspected, fallback, error>>

Next ==
    \/ CheckArgs
    \/ CheckMask
    \/ Order
    \/ SelectCoverage
    \/ SelectNumber
    \/ WarnExceeds
    \/ Return

Spec == Init /\ [][Next]_vars

\* ------------------------------------------------- calls that select
\* The calls with exactly one of coverage and num_of_segments, with
\* min_coverage < max_coverage and with as many weights as the mask has
\* segments: the calls that get to the count bounds (line 105) and, when
\* these are accepted, to the selection.
InitSelecting ==
    /\ segment_weights \in WeightArrays
    /\ segment_mask \in Masks
    /\ Len(segment_weights) = Len(segment_mask)
    /\ \E cov \in Opt(CovVals), num \in Opt(NumVals),
          minc \in CovVals, maxc \in CovVals,
          minn \in NumVals, maxn \in Opt(NumVals) :
          /\ IsNone(cov) # IsNone(num)
          /\ minc < maxc
          /\ Start(cov, num, minc, maxc, minn, maxn)

SpecSelecting == InitSelecting /\ [][Next]_vars

\* ------------------------------------------------- two calls in a row
\* The selecting calls that are driven by coverage.
InitCoverage ==
    /\ InitSelecting
    /\ ~IsNone(args.coverage)

\* The caller calls select_segments once more, with the same weights, mask
\* and bounds and another coverage; the first call's coverage and result are
\* kept in `previous`.
CallAgain ==
    /\ outcome = "returned"
    /\ previous = <<>>
    /\ ~IsNone(args.coverage) /\ IsNone(args.num_of_segments)
    /\ \E c2 \in CovVals :
          /\ c2 > Val(args.coverage)
          /\ args' = [args EXCEPT !.coverage = Some(c2)]
          /\ stack' = <<Frame(Some(c2), None, args.min_coverage, args.max_coverage,
                              args.min_num_of_segments, args.max_num_of_segments)>>
    /\ previous' = <<[coverage |-> Val(args.coverage), result |-> result]>>
    /\ warnings' = <<>>
    /\ inspected' = {}
    /\ fallback' = <<>>
    /\ outcome' = "running"
    /\ result' = <<>>
    /\ UNCHANGED <<segment_weights, segment_mask, ordered_segments, error,
                   lime_vars>>

NextAgain == Next \/ CallAgain

SpecAgain == InitCoverage /\ [][NextAgain]_vars

\* ------------------------------------------------------------------ lime.py
\* lime.py lines 15-20 and 134-138: the keys of the two dispatch tables, in
\* the order list(TABLE.keys()) gives them.
SEGMENTATION_METHODS == <<"felzenszwalb", "slic", "quickshift", "watershed">>
LINEAR_MODELS == <<"bayesian_ridge", "lasso", "linear">>

\* Identifiers a caller passes: every key and some strings that are no key.
MethodNames == Range(SEGMENTATION_METHODS) \cup {"SLIC", "linear"}
ModelNames ==
    Range(LINEAR_MODELS) \cup {"ordinary_least_squares", "l1_regularized", "slic"}

\* Arrays of the model: flat images, labels, binary rows, score rows.
DTypes == {"int", "float"}
PixelArrays(n) == [1 .. n -> 0 .. MaxVal]
Images == UNION {[dtype : DTypes, pixels : PixelArrays(n)] : n \in 1 .. MaxImg}
LabelArrays(n) == [1 .. n -> 0 .. MaxLabel]
SampleMatrices(n, s) == [1 .. n -> [1 .. s -> {0, 1}]]
ScoreRows == [1 .. NumClasses -> {0, 1}]
Backgrounds(n) ==
    {NoBackground}
    \cup [kind : {"scalar"}, dtype : DTypes, value : 0 .. MaxVal, pixels : {<<>>}]
    \cup [kind : {"array"}, dtype : DTypes, value : {0}, pixels : PixelArrays(n)]

\* np.min, np.max, np.unique(...).size, np.argmax of a non-empty array.
MinOf(a) == CHOOSE v \in Range(a) : \A w \in Range(a) : v <= w
MaxOf(a) == CHOOSE v \in Range(a) : \A w \in Range(a) : v >= w
UniqueSizeAsMax(a) == MaxOf(a) + 1
UniqueSize(a) == Cardinality(Range(a))
Argmax(a) ==
    (CHOOSE i \in 1 .. Len(a) :
        /\ a[i] = MaxOf(a)
        /\ \A j \in 1 .. i - 1 : a[j] # a[i]) - 1

\* np.nonzero(samples[k]): the columns of a row, counted from 0, that are not 0.
Nonzero(row) == {i - 1 : i \in {j \in 1 .. Len(row) : row[j] # 0}}

\* lines 103-108: binary_segment_mask[k] = np.isin(segment_mask, nonzero).
BinarySegmentMask(m, smp) ==
    [k \in 1 .. Len(smp) |->
        [x \in 1 .. Len(m) |-> IF m[x] \in Nonzero(smp[k]) THEN 1 ELSE 0]]

\* numpy: the dtype kind of a product or sum, and whether an in-place
\* operator (casting "same_kind") may store a result of kind from in kind to.
ResultType(a, b) == IF a = "float" \/ b = "float" THEN "float" ELSE "int"
CanCast(from, to) == ~(from = "float" /\ to = "int")

BackgroundAt(bg, x) == IF bg.kind = "array" THEN bg.pixels[x] ELSE bg.value

\* lines 103-113, the arrays generate_images computes:
\* images = binary * image; images += (1 - binary) * background.
PerturbedImages(img, m, smp, bg) ==
    LET b == BinarySegmentMask(m, smp)
        kept == [dtype |-> ResultType("int", img.dtype),
                 pixels |-> [k \in 1 .. Len(smp) |->
                               [x \in 1 .. Len(m) |-> b[k][x] * img.pixels[x]]]]
        term == [dtype |-> ResultType("int", bg.dtype),
                 pixels |-> [k \in 1 .. Len(smp) |->
                               [x \in 1 .. Len(m) |->
                                   (1 - b[k][x]) * BackgroundAt(bg, x)]]]
    IN  IF bg.kind = "none"
        THEN [error |-> NoError, images |-> kept]
        ELSE IF ~CanCast(term.dtype, kept.dtype)
        THEN [error |-> [type |-> "UFuncTypeError", options |-> <<>>],
              images |-> NoArray]
        ELSE [error |-> NoError,
              images |-> [dtype |-> kept.dtype,
                          pixels |-> [k \in 1 .. Len(smp) |->
                                        [x \in 1 .. Len(m) |->
                                            kept.pixels[k][x] + term.pixels[k][x]]]]]

\* Where a function of lime.py hands over: to the next statement of
\* explain_classification, or back to the caller who called it directly.
Done(next) == IF call.fn = "explain_classification" THEN next ELSE "done"

\* LimeRaise without the except clause: the KeyError of the lookup gets out.
LimeRaiseKeyError(type, options) ==
    /\ lime_pc' = "raised"
    /\ lime_error' = [type |-> "KeyError", options |-> <<>>]

LimeRaise(type, options) ==
    /\ lime_pc' = "raised"
    /\ lime_error' = [type |-> type, options |-> options]

\* explain.py lines 72-73: label_idx = int(np.argmax(predict_fn(image[None]))).
explain_classification_label_idx ==
    /\ lime_pc = "label_idx"
    /\ IF IsNone(label_idx)
       THEN \E scores \in ScoreRows :
               /\ label_idx' = Some(Argmax(scores))
               /\ stages' = Append(stages, "predict_fn")
       ELSE UNCHANGED <<label_idx, stages>>
    /\ lime_pc' = "create_segments"
    /\ UNCHANGED <<call, image, pixel_mask, samples, images, predictions, coef,
                   lime_error>>

\* lime.py lines 39-51.
create_segments ==
    /\ lime_pc = "create_segments"
    /\ IF call.segmentation_method \notin Range(SEGMENTATION_METHODS)
       THEN /\ LimeRaise("ValueError", SEGMENTATION_METHODS)
            /\ stages' = Append(stages, "create_segments")
            /\ UNCHANGED pixel_mask
       ELSE \E labels \in LabelArrays(Len(image.pixels)) :
               /\ pixel_mask' = [x \in 1 .. Len(labels) |-> labels[x] - MinOf(labels)]
               /\ stages' = stages \o <<"create_segments", "segmentation_fn">>
               /\ lime_pc' = Done("generate_samples")
               /\ UNCHANGED lime_error
    /\ UNCHANGED <<call, label_idx, image, samples, images, predictions, coef>>

\* lime.py lines 74-76.
generate_samples ==
    /\ lime_pc = "generate_samples"
    /\ \E smp \in SampleMatrices(call.num_of_samples, UniqueSize(pixel_mask)) :
          samples' = smp
    /\ stages' = Append(stages, "generate_samples")
    /\ lime_pc' = Done("generate_images")
    /\ UNCHANGED <<call, label_idx, image, pixel_mask, images, predictions, coef,
                   lime_error>>

\* lime.py lines 103-113.
generate_images ==
    /\ lime_pc = "generate_images"
    /\ LET r == PerturbedImages(image, pixel_mask, samples, call.background)
       IN  IF r.error.type # "none"
           THEN /\ LimeRaise(r.error.type, r.error.options)
                /\ UNCHANGED images
           ELSE /\ images' = r.images
                /\ lime_pc' = Done("predict_images")
                /\ UNCHANGED lime_error
    /\ stages' = Append(stages, "generate_images")
    /\ UNCHANGED <<call, label_idx, image, pixel_mask, samples, predictions, coef>>

\* lime.py line 131.
predict_images ==
    /\ lime_pc = "predict_images"
    /\ \E p \in [1 .. Len(images.pixels) -> ScoreRows] : predictions' = p
    /\ stages' = stages \o <<"predict_images", "predict_fn">>
    /\ lime_pc' = Done("weigh_segments")
    /\ UNCHANGED <<call, label_idx, image, pixel_mask, samples, images, coef,
                   lime_error>>

\* lime.py lines 158-165.
weigh_segments ==
    /\ lime_pc = "weigh_segments"
    /\ IF call.model_type \notin Range(LINEAR_MODELS)
       THEN /\ LimeRaise("ValueError", LINEAR_MODELS)
            /\ stages' = Append(stages, "weigh_segments")
            /\ UNCHANGED coef
       ELSE \E c \in [1 .. Len(samples[1]) -> 0 .. MaxWeight] :
               /\ coef' = c
               /\ stages' = stages \o <<"weigh_segments", "fit">>
               /\ lime_pc' = Done("return")
               /\ UNCHANGED lime_error
    /\ UNCHANGED <<call, label_idx, image, pixel_mask, samples, images, predictions>>

\* explain.py line 93: return segment_mask, segment_weights.
explain_classification_return ==
    /\ lime_pc = "return"
    /\ lime_pc' = "done"
    /\ UNCHANGED <<call, label_idx, image, pixel_mask, samples, images,
                   predictions, coef, stages, lime_error>>

\* No call of select_segments is under way.
NoSelectCall ==
    /\ segment_weights = <<>>
    /\ segment_mask = <<>>
    /\ args = [coverage |-> None, num_of_segments |-> None,
               min_coverage |-> 0, max_coverage |-> CovDen,
               min_num_of_segments |-> 0, max_num_of_segments |-> None]
    /\ stack = <<>>
    /\ ordered_segments = <<>>
    /\ warnings = <<>>
    /\ inspected = {}
    /\ fallback = <<>>
    /\ outcome = "idle"
    /\ result = <<>>
    /\ error = ""
    /\ previous = <<>>

\* explain.py lines 16-25: a call of explain_classification; model_type is
\* the default of weigh_segments (line 145), no background (line 85).
InitExplain ==
    /\ NoSelectCall
    /\ \E m \in MethodNames, n \in 1 .. MaxSamples :
          call = [fn |-> "explain_classification", segmentation_method |-> m,
                  model_type |-> "bayesian_ridge", num_of_samples |-> n,
                  background |-> NoBackground]
    /\ lime_pc = "label_idx"
    /\ label_idx \in Opt(0 .. NumClasses - 1)
    /\ image \in Images
    /\ pixel_mask = <<>>
    /\ samples = <<>>
    /\ images = NoArray
    /\ predictions = <<>>
    /\ coef = <<>>
    /\ stages = <<>>
    /\ lime_error = NoError

\* lime.py lines 141-146: a direct call of weigh_segments.
InitWeigh ==
    /\ NoSelectCall
    /\ \E t \in ModelNames :
          call = [fn |-> "weigh_segments", segmentation_method |-> "",
                  model_type |-> t, num_of_samples |-> 0,
                  background |-> NoBackground]
    /\ lime_pc = "weigh_segments"
    /\ label_idx \in {Some(l) : l \in 0 .. NumClasses - 1}
    /\ image = NoArray
    /\ pixel_mask = <<>>
    /\ \E n \in 1 .. MaxSamples, s \in 1 .. MaxImg :
          /\ samples \in SampleMatrices(n, s)
          /\ predictions \in [1 .. n -> ScoreRows]
    /\ images = NoArray
    /\ coef = <<>>
    /\ stages = <<>>
    /\ lime_error = NoError

NextExplain ==
    \/ explain_classification_label_idx
    \/ create_segments
    \/ generate_samples
    \/ generate_images
    \/ predict_images
    \/ weigh_segments
    \/ explain_classification_return

LimeStep(A) == A /\ UNCHANGED <<segment_weights, segment_mask, args, stack,
                                ordered_segments, warnings, inspected, fallback,
                                outcome, result, error, previous>>

SpecExplain == (InitExplain \/ InitWeigh) /\ [][LimeStep(NextExplain)]_vars

\* lime.py lines 79-84: a direct call of generate_images, with a sample
\* matrix of one column per segment ID 0 .. np.max(segment_mask).
InitImages ==
    /\ NoSelectCall
    /\ image \in Images
    /\ pixel_mask \in LabelArrays(Len(image.pixels))
    /\ \E n \in 1 .. MaxSamples :
          samples \in SampleMatrices(n, MaxOf(pixel_mask) + 1)
    /\ \E bg \in Backgrounds(Len(image.pixels)) :
          call = [fn |-> "generate_images", segmentation_method |-> "",
                  model_type |-> "", num_of_samples |-> 0, background |-> bg]
    /\ lime_pc = "generate_images"
    /\ label_idx = None
    /\ images = NoArray
    /\ predictions = <<>>
    /\ coef = <<>>
    /\ stages = <<>>
    /\ lime_error = NoError

SpecImages == InitImages /\ [][LimeStep(generate_images)]_vars

\* ---------------------------------------------------------------- properties
Returned == outcome = "returned"
ByCoverage == ~IsNone(args.coverage) /\ IsNone(args.num_of_segments)
ByNumber == IsNone(args.coverage) /\ ~IsNone(args.num_of_segments)
NumSegments == Len(segment_mask)
Warned(w) == \E i \in 1 .. Len(warnings) : warnings[i] = w

\* The call has not got past the validation of lines 84-108.
HeldAtValidation ==
    /\ outcome # "returned"
    /\ outcome = "running" => Len(stack) = 1 /\ stack[1].pc \in {"args", "mask"}
    /\ ordered_segments = <<>>
    /\ warnings = <<>>

\* C1: the number of returned segment IDs lies between min_num_of_segments
\* and max_num_of_segments (the number of segments when no maximum is given),
\* also when the result comes from the max_coverage or min_coverage fallback.
C1_SizeWithinNumBounds ==
    Returned =>
        /\ Len(result) >= args.min_num_of_segments
        /\ Len(result) <= MaxNumOfSegments(args.max_num_of_segments, segment_mask)

Target ==
    IF Val(args.coverage) < args.min_coverage THEN args.min_coverage
    ELSE IF Val(args.coverage) > args.max_coverage THEN args.max_coverage
    ELSE Val(args.coverage)

Reaches(k, c) ==
    IsinSum(segment_mask, SubSeq(ordered_segments, 1, k)) * CovDen
        >= c * Area(segment_mask)

\* C4: driven by coverage with the default count bounds, the result is the
\* shortest non-empty prefix of the segments in descending weight whose
\* share of the pixels is at least the clamped coverage target.
C4_ShortestPrefix ==
    (Returned /\ ByCoverage /\ args.min_num_of_segments = 0
              /\ IsNone(args.max_num_of_segments)) =>
        \E k \in 1 .. NumSegments :
            /\ result = SubSeq(ordered_segments, 1, k)
            /\ Reaches(k, Target)
            /\ \A j \in 1 .. k - 1 : ~Reaches(j, Target)

C4_Witness ==
    /\ Returned /\ ByCoverage /\ args.min_num_of_segments = 0
    /\ IsNone(args.max_num_of_segments)
    /\ NumSegments = 3
    /\ \A s \in 1 .. 3 : segment_mask[s] = segment_mask[1]
    /\ Val(args.coverage) * 2 = CovDen
    /\ Len(result) = 2

\* C5: when the top num_of_segments segments cover more than max_coverage,
\* the returned selection exceeds max_coverage only if it is one segment,
\* and the warning is given in exactly that case.
C5_AboveMaxOnlySingle ==
    (Returned /\ ByNumber /\ fallback # <<>> /\ fallback[1].target = "max_coverage") =>
        /\ CoverGt(segment_mask, result, args.max_coverage) => Len(result) = 1
        /\ Warned("UserWarning") <=>
               (Len(result) = 1 /\ CoverGt(segment_mask, result, args.max_coverage))

\* No non-empty proper prefix of the descending order reaches the target.
NeedsAll == \A k \in 1 .. NumSegments - 1 : ~Reaches(k, Target)

\* C6: driven by coverage, when only the full segment set reaches the
\* target the call does not raise, warns and returns all the segments.
C6_AllSegmentsReturned ==
    (ByCoverage /\ ordered_segments # <<>> /\ NeedsAll) =>
        /\ outcome # "raised"
        /\ Returned => Warned("RuntimeWarning") /\ Len(result) = NumSegments

\* C6 as amended: all the segments are returned unless a max_num_of_segments
\* of 1 .. S-1 is given, and then at least max_num_of_segments of them.
C6_AllSegmentsUnlessCapped ==
    (ByCoverage /\ ordered_segments # <<>> /\ NeedsAll) =>
        /\ outcome # "raised"
        /\ Returned =>
              /\ Warned("RuntimeWarning")
              /\ LET maxn == MaxNumOfSegments(args.max_num_of_segments, segment_mask)
                 IN IF maxn >= NumSegments
                    THEN Len(result) = NumSegments
                    ELSE Len(result) >= maxn

C6_Witness ==
    /\ Returned /\ ByCoverage /\ NeedsAll
    /\ NumSegments = 3
    /\ IsNone(args.max_num_of_segments)
    /\ Len(result) = 3
    /\ Warned("RuntimeWarning")

\* C7: min_coverage >= max_coverage is rejected, and so is a
\* min_num_of_segments >= the max_num_of_segments the caller gave, 0 included.
C7_InvertedBoundsRejected ==
    (\/ args.min_coverage >= args.max_coverage
     \/ /\ ~IsNone(args.max_num_of_segments)
        /\ args.min_num_of_segments >= Val(args.max_num_of_segments)) =>
        HeldAtValidation

\* The number of distinct values in the mask; the IDs are 0 .. S-1.
DistinctIDs == Cardinality({s \in 1 .. Len(segment_mask) : segment_mask[s] > 0})
Dense == \A s \in 1 .. Len(segment_mask) : segment_mask[s] > 0

\* C8: weights whose length is not the number of distinct mask values, and
\* masks whose IDs are not 0 .. S-1, are rejected before anything is ordered
\* or selected.
C8_MaskAndWeightsValidated ==
    (Len(segment_weights) # DistinctIDs \/ ~Dense) => HeldAtValidation

BothGiven == ~IsNone(args.coverage) /\ ~IsNone(args.num_of_segments)
NeitherGiven == IsNone(args.coverage) /\ IsNone(args.num_of_segments)

\* C9: with both coverage and num_of_segments, or neither, the call raises
\* its ValueError whatever the other arguments are, before the mask or the
\* weights are looked at and with nothing ordered, selected or warned.
C9_ModeRejectedFirst ==
    (BothGiven \/ NeitherGiven) =>
        /\ HeldAtValidation
        /\ inspected = {}
        /\ outcome = "running" => stack[1].pc = "args"
        /\ outcome = "raised" =>
              error = IF BothGiven
                      THEN "Only either coverage or num_of_segments can be given."
                      ELSE "Either coverage or num_of_segments has to be specified."

C9_Witness ==
    /\ outcome = "raised"
    /\ BothGiven
    /\ args.min_coverage >= args.max_coverage
    /\ Len(segment_weights) # Len(segment_mask)
    /\ args.min_num_of_segments > 0 /\ args.max_num_of_segments = Some(0)

IsPrefix(a, b) == Len(a) <= Len(b) /\ a = SubSeq(b, 1, Len(a))

\* C10: when the top num_of_segments segments cover less than min_coverage,
\* the result adds segments to them in descending-weight order and covers at
\* least min_coverage.
C10_MinCoverageReached ==
    (Returned /\ ByNumber /\ fallback # <<>> /\ fallback[1].target = "min_coverage") =>
        /\ CoverGeq(segment_mask, result, args.min_coverage)
        /\ IsPrefix(fallback[1].selected, result)
        /\ Len(result) > Len(fallback[1].selected)
        /\ IsPrefix(result, ordered_segments)

C10_Witness ==
    /\ Returned /\ ByNumber
    /\ fallback # <<>> /\ fallback[1].target = "min_coverage"
    /\ Len(fallback[1].selected) = 1
    /\ Len(result) = 2
    /\ NumSegments = 3

\* C3: for the same weights, mask and bounds, a larger coverage never gives
\* fewer segments.
C3_CoverageMonotone ==
    (Returned /\ previous # <<>> /\ previous[1].coverage <= Val(args.coverage)) =>
        Len(previous[1].result) <= Len(result)

C3_Witness ==
    /\ Returned /\ previous # <<>>
    /\ previous[1].coverage < Val(args.coverage)
    /\ Len(previous[1].result) < Len(result)
    /\ fallback # <<>>

\* C14: the fallback is bounded: a call calls select_segments again at most
\* once, the nested call never does, so there are never more than two frames
\* (fewer than MaxDepth, the cap of the model, which therefore never binds).
C14_FallbackDepthAtMostOne ==
    /\ Len(stack) <= 2
    /\ Len(fallback) <= 1
    /\ Len(stack) = 2 =>
          /\ stack[1].pc \in {"after_max", "after_min"}
          /\ Top.pc = "number" =>
                 FallbackOf(segment_mask,
                            Take(ordered_segments,
                                 ClampNum(Val(Top.num_of_segments),
                                          Top.min_num_of_segments,
                                          Val(Top.max_num_of_segments))),
                            Top.min_coverage, Top.max_coverage) = "none"
    /\ Len(stack) < MaxDepth

C14_Witness ==
    /\ outcome = "running"
    /\ Len(stack) = 2
    /\ Top.pc = "return"
    /\ Len(fallback) = 1
    /\ NumSegments = 3

\* The stages of explain_classification, each followed by the library call
\* it makes; IDs in a mask, the rows and columns of a matrix.
Pipeline ==
    <<"create_segments", "segmentation_fn", "generate_samples", "generate_images",
      "predict_images", "predict_fn", "weigh_segments", "fit">>
Explaining == call.fn = "explain_classification"
LimeEnded == lime_pc \in {"done", "raised"}
NumOfIDs == Cardinality(Range(pixel_mask))

DenseIDs == Range(pixel_mask) = 0 .. MaxOf(pixel_mask)

\* C12: generate_images, for a mask with the IDs 0 .. S-1 and an N x S binary
\* sample matrix, returns N images; pixel x of image k is the original pixel
\* where samples[k, mask[x]] = 1 and the background elsewhere (0 when none is
\* given, else the scalar or the array's pixel x).
C12_KeptOrBackground ==
    (call.fn = "generate_images" /\ lime_pc # "generate_images" /\ DenseIDs) =>
       /\ lime_pc = "done"
       /\ Len(images.pixels) = Len(samples)
       /\ \A k \in 1 .. Len(samples) : \A x \in 1 .. Len(pixel_mask) :
             images.pixels[k][x] =
                IF samples[k][pixel_mask[x] + 1] = 1
                THEN image.pixels[x]
                ELSE BackgroundAt(call.background, x)

\* C13: create_segments and weigh_segments, given an identifier that is no
\* key of their table, raise a ValueError that lists the keys of the table,
\* before the segmentation function is called or a model is fitted; given a
\* key, they call it and do not raise.
C13_UnknownNamesRejected ==
    /\ "create_segments" \in Range(stages) =>
          IF call.segmentation_method \in Range(SEGMENTATION_METHODS)
          THEN "segmentation_fn" \in Range(stages) /\ lime_error = NoError
          ELSE /\ lime_pc = "raised"
               /\ lime_error.type = "ValueError"
               /\ lime_error.options = SEGMENTATION_METHODS
               /\ "segmentation_fn" \notin Range(stages)
               /\ pixel_mask = <<>>
    /\ "weigh_segments" \in Range(stages) =>
          IF call.model_type \in Range(LINEAR_MODELS)
          THEN "fit" \in Range(stages) /\ lime_error = NoError
          ELSE /\ lime_pc = "raised"
               /\ lime_error.type = "ValueError"
               /\ lime_error.options = LINEAR_MODELS
               /\ "fit" \notin Range(stages)
               /\ coef = <<>>

C13_Witness ==
    /\ call.fn = "weigh_segments"
    /\ call.model_type = "ordinary_least_squares"
    /\ lime_pc = "raised"
    /\ lime_error.options = <<"bayesian_ridge", "lasso", "linear">>

====
